---- MODULE Spec2Model ----
\* redux-cqrs: the Command/Event dispatchers (handler registry keyed by a
\* tag derived from the class name, serialized queue drain), the tag
\* derivation of the Command and Event constructors, the Redux middleware
\* that routes actions to the dispatchers, and hydrateEntity.
EXTENDS Integers, Sequences, FiniteSets, TLC

VARIABLES handlers, queue, isProcessing, calls, suspended, stack,
          invoked, settled, registered, probe,
          store, routed, hydrated, instances

\* the dispatchers and their histories
dispVars == <<handlers, queue, isProcessing, calls, suspended, stack,
              invoked, settled, registered>>

\* the Redux store, the actions its middleware was given and where it
\* sent each, the last call of hydrateEntity, the message objects
\* constructed
appVars == <<store, routed, hydrated, instances>>

vars == <<handlers, queue, isProcessing, calls, suspended, stack,
          invoked, settled, registered, probe,
          store, routed, hydrated, instances>>

\* ---------------------------------------------------------------- bounds
\* dispatch calls made in one behaviour, over both dispatchers
MaxDispatch == 3
\* registerHandler calls made in one behaviour, over both dispatchers
MaxRegister == 2
\* words in a class name given to the tag derivation
MaxWords == 3
\* actions the middleware passes to next in one behaviour
MaxNext == 1
\* message objects constructed in one behaviour
MaxInstances == 2

\* ------------------------------------------------------------ characters
\* A string is a sequence of one-character strings.
Lower == <<"a","b","c","d","e","f","g","h","i","j","k","l","m",
           "n","o","p","q","r","s","t","u","v","w","x","y","z">>
Upper == <<"A","B","C","D","E","F","G","H","I","J","K","L","M",
           "N","O","P","Q","R","S","T","U","V","W","X","Y","Z">>

\* [a-z]
IsLower(c) == \E i \in 1..26 : Lower[i] = c
\* [A-Z]
IsUpper(c) == \E i \in 1..26 : Upper[i] = c

ToUpperChar(c) ==
  IF IsLower(c) THEN Upper[CHOOSE i \in 1..26 : Lower[i] = c] ELSE c

\* String.prototype.toUpperCase
toUpperCase(s) == [i \in 1..Len(s) |-> ToUpperChar(s[i])]

\* s.replace(/([a-z])([A-Z])/g, '$1_$2'): scan left to right, a match
\* consumes both characters.
RECURSIVE replace(_)
replace(s) ==
  IF Len(s) < 2 THEN s
  ELSE IF IsLower(s[1]) /\ IsUpper(s[2])
       THEN <<s[1], "_", s[2]>> \o replace(SubSeq(s, 3, Len(s)))
       ELSE <<s[1]>> \o replace(Tail(s))

\* s.split('_'): the segments between underscores, empty ones included
RECURSIVE split(_)
split(s) ==
  IF \A i \in 1..Len(s) : s[i] # "_" THEN <<s>>
  ELSE LET i == CHOOSE k \in 1..Len(s) :
                  s[k] = "_" /\ \A j \in 1..(k-1) : s[j] # "_"
       IN <<SubSeq(s, 1, i - 1)>> \o split(SubSeq(s, i + 1, Len(s)))

\* segs.indexOf(x): 0-based index of the first element equal to x, or -1
indexOf(segs, x) ==
  IF \E i \in 1..Len(segs) : segs[i] = x
  THEN (CHOOSE i \in 1..Len(segs) :
          segs[i] = x /\ \A j \in 1..(i-1) : segs[j] # x) - 1
  ELSE -1

\* segs.slice(0, end) for end >= 0
slice(segs, end) ==
  SubSeq(segs, 1, IF end < Len(segs) THEN end ELSE Len(segs))

\* segs.join('_')
RECURSIVE join(_)
join(segs) ==
  IF segs = <<>> THEN <<>>
  ELSE IF Len(segs) = 1 THEN segs[1]
  ELSE segs[1] \o <<"_">> \o join(Tail(segs))

ToLowerChar(c) ==
  IF IsUpper(c) THEN Lower[CHOOSE i \in 1..26 : Upper[i] = c] ELSE c

\* String.prototype.toLowerCase
toLowerCase(s) == [i \in 1..Len(s) |-> ToLowerChar(s[i])]

\* [0-9a-fA-F]
IsHex(c) ==
  c \in {"0","1","2","3","4","5","6","7","8","9",
         "a","b","c","d","e","f","A","B","C","D","E","F"}

\* s has the characters [0-9a-fA-F]{8}-([0-9a-fA-F]{4}-){3}[0-9a-fA-F]{12}
\* and no others
HexGroups(s) ==
  /\ Len(s) = 36
  /\ \A i \in 1..36 :
        IF i \in {9, 14, 19, 24} THEN s[i] = "-" ELSE IsHex(s[i])

\* s.match(/^[{]?[0-9a-fA-F]{8}-([0-9a-fA-F]{4}-){3}[0-9a-fA-F]{12}[}]?$/)
match(s) ==
  \E open \in {0, 1} : \E close \in {0, 1} :
     /\ Len(s) = 36 + open + close
     /\ open = 1 => s[1] = "{"
     /\ close = 1 => s[Len(s)] = "}"
     /\ HexGroups(SubSeq(s, 1 + open, Len(s) - close))

\* String.prototype.endsWith
endsWith(name, suffix) ==
  /\ Len(name) >= Len(suffix)
  /\ SubSeq(name, Len(name) - Len(suffix) + 1, Len(name)) = suffix

\* The string made of the characters of s.
RECURSIVE str(_)
str(s) == IF s = <<>> THEN "" ELSE s[1] \o str(Tail(s))

\* The type stamped by the Command and Event constructors.
TypeTag(name) == str(toUpperCase(replace(name)))

\* The key registerHandler computes from the handler's class name.
HandlerKey(name, segment) ==
  str(join(slice(split(toUpperCase(replace(name))),
                 indexOf(split(replace(name)), segment) + 1)))

\* ------------------------------------------------------------ class names
wLogin   == <<"L","o","g","i","n">>
wLogout  == <<"L","o","g","o","u","t">>
wUser    == <<"U","s","e","r">>
wItem    == <<"I","t","e","m">>
wUpdated == <<"U","p","d","a","t","e","d">>
wCommand == <<"C","o","m","m","a","n","d">>
wEvent   == <<"E","v","e","n","t">>
wHandler == <<"H","a","n","d","l","e","r">>
wLogged  == <<"L","o","g","g","e","d">>
wIn      == <<"I","n">>
wId      == <<"I","d">>
wID      == <<"I","D">>
wDB      == <<"D","B">>
wV2      == <<"V","2">>

Kinds == {"Command", "Event"}

\* 'Command' in CommandDispatcher.registerHandler, 'Event' in
\* EventDispatcher.registerHandler
Segment(d) == IF d = "Command" THEN wCommand ELSE wEvent

\* The concrete message classes dispatched to each dispatcher: the command
\* LogoutCommand has no handler class.
MsgClasses(d) ==
  IF d = "Command"
  THEN {wLogin \o wUser \o wCommand, wLogout \o wCommand}
  ELSE {wItem \o wUpdated \o wEvent}

\* Handler objects: two instances of LoginUserCommandHandler, one of
\* ItemUpdatedEventHandler.
HandlerObjects == {"loginA", "loginB", "itemA"}

\* The handler objects the application registers with each dispatcher.
Registrable(d) ==
  IF d = "Command" THEN {"loginA", "loginB"} ELSE {"itemA"}

AllMsgClasses == MsgClasses("Command") \cup MsgClasses("Event")

\* message.type of an instance of each of these message classes
typeOf == [cls \in AllMsgClasses |-> TypeTag(cls)]

\* the type stamped on a new instance of class cls
NewType(cls) == IF cls \in AllMsgClasses THEN typeOf[cls] ELSE TypeTag(cls)

\* the key under which each dispatcher stores each of these handler objects
keyOf == [d \in Kinds |-> [h \in HandlerObjects |->
            HandlerKey(IF h = "itemA"
                       THEN wItem \o wUpdated \o wEvent \o wHandler
                       ELSE wLogin \o wUser \o wCommand \o wHandler,
                       Segment(d))]]

\* -------------------------------------------------------------------- Map
\* A Map is the sequence of its entries [key, value] in insertion order.
NoHandler == "undefined"

MapHas(map, k) == \E i \in 1..Len(map) : map[i].key = k

\* A set that leaves an existing entry alone.
MapSetKeepFirst(map, k, v) ==
  IF MapHas(map, k) THEN map ELSE Append(map, [key |-> k, value |-> v])

\* Map.prototype.set: an existing key keeps its position and gets the new
\* value, a new key is appended.
MapSet(map, k, v) ==
  IF MapHas(map, k)
  THEN [i \in 1..Len(map) |->
          IF map[i].key = k THEN [key |-> k, value |-> v] ELSE map[i]]
  ELSE Append(map, [key |-> k, value |-> v])

\* Map.prototype.get
MapGet(map, k) ==
  IF MapHas(map, k)
  THEN map[CHOOSE i \in 1..Len(map) :
             map[i].key = k /\ \A j \in 1..(i-1) : map[j].key # k].value
  ELSE NoHandler

\* ------------------------------------------------------------------ state
\* handlers[d]     commandHandlers / eventHandlers
\* queue[d]        commandQueue / eventQueue
\* isProcessing[d] the flag of dispatcher d
\* calls[d]        every dispatch call made so far on d: its message and
\*                 the state of the promise it returned
\* suspended       the processQueue activations waiting at
\*                 `await handler(message)`
\* stack           the handler invocations whose synchronous part is
\*                 running, innermost last
\* invoked[d], settled[d], registered[d]   history of d: the handler
\*                 invocations, the messages done with, the handlers given
\*                 to registerHandler
\* probe           a message class N and a dispatcher, for the handler
\*                 object "probe" of class N + 'Handler'
\* store           the state of the Redux store, a function of slice names
\* routed          the actions given to the middleware, in order, each
\*                 with the function the middleware called with it
\* hydrated        the arguments and the outcome of the last hydrateEntity
\* instances       the message objects constructed so far, in order

NoMsg == [n |-> 0, type |-> ""]

NoProbe == [name |-> <<>>, kind |-> "Command"]

\* initialState of authReducer, the one reducer of the store
initialState ==
  [auth |-> [isAuthenticated |-> FALSE, userId |-> ""]]

\* hydrateEntity was not called
NotHydrated == [called |-> FALSE]

\* the application part of the state before anything ran
InitApp ==
  /\ store = initialState
  /\ routed = <<>>
  /\ hydrated = NotHydrated
  /\ instances = <<>>

Init ==
  /\ handlers = [d \in Kinds |-> <<>>]
  /\ queue = [d \in Kinds |-> <<>>]
  /\ isProcessing = [d \in Kinds |-> FALSE]
  /\ calls = [d \in Kinds |-> <<>>]
  /\ suspended = {}
  /\ stack = <<>>
  /\ invoked = [d \in Kinds |-> <<>>]
  /\ settled = [d \in Kinds |-> <<>>]
  /\ registered = [d \in Kinds |-> <<>>]
  /\ probe = NoProbe
  /\ InitApp

\* (handler as any).constructor.name
constructorName(h) ==
  CASE h \in {"loginA", "loginB"} -> wLogin \o wUser \o wCommand \o wHandler
    [] h = "itemA"                -> wItem \o wUpdated \o wEvent \o wHandler
    [] OTHER                      -> probe.name \o wHandler

\* the key registerHandler of dispatcher d computes for handler h
KeyFor(d, h) ==
  IF h \in HandlerObjects THEN keyOf[d][h]
  ELSE HandlerKey(constructorName(h), Segment(d))

NumCalls == Len(calls["Command"]) + Len(calls["Event"])
NumRegistered == Len(registered["Command"]) + Len(registered["Event"])

\* registerHandler(handler)
registerHandler(d, h) ==
  /\ stack = <<>>
  /\ NumRegistered < MaxRegister
  /\ handlers' = [handlers EXCEPT
        ![d] = MapSet(@, KeyFor(d, h), h)]
  /\ registered' = [registered EXCEPT ![d] = Append(@, h)]
  /\ UNCHANGED <<queue, isProcessing, calls, suspended, stack,
                 invoked, settled, probe>>
  /\ UNCHANGED appVars

\* An unshift in place of the push.
unshift(q, m) == <<m>> \o q

\* this.commandQueue.push(command)
push(q, m) == Append(q, m)

\* this.commandQueue.shift(): the message taken, and the queue left
shift(q) == [msg |-> Head(q), rest |-> Tail(q)]

\* No try/catch around the await.
HandlerFailureEscapes == FALSE

\* The catch clause around `await handler(message)`: the failure is logged
\* and the loop goes on.
HandlerFailureCaught == TRUE

\* A throw in the else branch, as in the dispatcher of the README.
NoHandlerThrows == FALSE

\* The else branch of `if (handler)`: console.error, the loop goes on.
NoHandlerContinues == TRUE

\* The flag left set after the loop.
FlagLeftSet == TRUE

\* this.isProcessing = false, after the loop: the value of the flag
FlagAfterLoop == FALSE

\* The while loop of processQueue, run from its head until it calls a
\* handler, finds the queue empty, or is left by an exception.
RECURSIVE loop(_, _)
loop(q, map) ==
  IF q = <<>>
  THEN [status |-> "finished", queue |-> q, dropped |-> <<>>,
        msg |-> NoMsg, handler |-> NoHandler]
  ELSE LET s == shift(q)
           h == MapGet(map, s.msg.type)
       IN IF h # NoHandler
          THEN [status |-> "invoke", queue |-> s.rest, dropped |-> <<>>,
                msg |-> s.msg, handler |-> h]
          ELSE IF NoHandlerContinues
          THEN LET r == loop(s.rest, map)
               IN [r EXCEPT !.dropped = <<s.msg>> \o @]
          ELSE [status |-> "aborted", queue |-> s.rest,
                dropped |-> <<s.msg>>, msg |-> NoMsg, handler |-> NoHandler]

Unhandled(ms) ==
  [i \in 1..Len(ms) |-> [msg |-> ms[i], result |-> "unhandled"]]

\* processQueue of dispatcher d, started by the dispatch call c, runs its
\* loop on queue q. cls is calls[d] and stk the stack as the step found
\* them; done lists the messages the step finished with before the loop.
RunLoop(d, c, q, stk, cls, done) ==
  LET r == loop(q, handlers[d])
  IN /\ queue' = [queue EXCEPT ![d] = r.queue]
     /\ settled' = [settled EXCEPT ![d] = @ \o done \o Unhandled(r.dropped)]
     /\ IF r.status = "invoke"
        THEN /\ stack' = Append(stk, [kind |-> d, msg |-> r.msg,
                                      handler |-> r.handler, call |-> c])
             /\ invoked' = [invoked EXCEPT ![d] = Append(@,
                   [msg |-> r.msg, handler |-> r.handler])]
             /\ isProcessing' = [isProcessing EXCEPT ![d] = TRUE]
             /\ calls' = [calls EXCEPT ![d] = cls]
        ELSE /\ stack' = stk
             /\ invoked' = invoked
             /\ IF r.status = "finished"
                THEN /\ isProcessing' = [isProcessing EXCEPT
                           ![d] = FlagAfterLoop]
                     /\ calls' = [calls EXCEPT
                           ![d] = [cls EXCEPT ![c].state = "drained"]]
                ELSE /\ isProcessing' = [isProcessing EXCEPT ![d] = TRUE]
                     /\ calls' = [calls EXCEPT
                           ![d] = [cls EXCEPT ![c].state = "failed"]]

\* processQueue left by an exception thrown at `await handler(message)`:
\* the promise it returned is rejected, isProcessing stays set.
Escape(d, c, stk, done) ==
  /\ settled' = [settled EXCEPT ![d] = @ \o done]
  /\ stack' = stk
  /\ calls' = [calls EXCEPT ![d][c].state = "failed"]
  /\ UNCHANGED <<queue, isProcessing, invoked>>

\* The test of the flag left out.
StartsDrainAlways(d) == TRUE

\* One flag for both dispatchers.
StartsDrainShared(d) == \A e \in Kinds : ~isProcessing[e]

\* if (!this.isProcessing)
StartsDrain(d) == ~isProcessing[d]

\* dispatch(message), called from outside or from the handler whose
\* synchronous part is running, with a message of the given type. What the
\* caller does besides is the caller's.
dispatch(d, type) ==
  /\ NumCalls < MaxDispatch
  /\ LET c == Len(calls[d]) + 1
         m == [n |-> c, type |-> type]
     IN IF StartsDrain(d)
        THEN RunLoop(d, c, push(queue[d], m), stack,
                     Append(calls[d], [msg |-> m, state |-> "awaiting"]),
                     <<>>)
        ELSE /\ queue' = [queue EXCEPT ![d] = push(@, m)]
             /\ calls' = [calls EXCEPT
                   ![d] = Append(@, [msg |-> m, state |-> "resolved"])]
             /\ UNCHANGED <<isProcessing, stack, invoked, settled>>
  /\ UNCHANGED <<handlers, suspended, registered, probe>>

Top == stack[Len(stack)]
Pop == SubSeq(stack, 1, Len(stack) - 1)

\* The running handler returns (a promise, or a plain value): processQueue
\* suspends at the await.
HandlerReturns ==
  /\ stack # <<>>
  /\ suspended' = suspended \cup {Top}
  /\ stack' = Pop
  /\ UNCHANGED <<handlers, queue, isProcessing, calls, invoked, settled,
                 registered, probe>>
  /\ UNCHANGED appVars

\* The running handler throws before it returns.
HandlerThrows ==
  /\ stack # <<>>
  /\ LET t == Top
         done == <<[msg |-> t.msg, result |-> "failed"]>>
     IN IF HandlerFailureCaught
        THEN RunLoop(t.kind, t.call, queue[t.kind], Pop, calls[t.kind], done)
        ELSE Escape(t.kind, t.call, Pop, done)
  /\ UNCHANGED <<handlers, suspended, registered, probe>>
  /\ UNCHANGED appVars

\* The promise a suspended processQueue waits for is fulfilled.
HandlerResolves(s) ==
  /\ stack = <<>>
  /\ s \in suspended
  /\ suspended' = suspended \ {s}
  /\ RunLoop(s.kind, s.call, queue[s.kind], stack, calls[s.kind],
             <<[msg |-> s.msg, result |-> "ok"]>>)
  /\ UNCHANGED <<handlers, registered, probe>>
  /\ UNCHANGED appVars

\* The promise a suspended processQueue waits for is rejected.
HandlerRejects(s) ==
  /\ stack = <<>>
  /\ s \in suspended
  /\ suspended' = suspended \ {s}
  /\ LET done == <<[msg |-> s.msg, result |-> "failed"]>>
     IN IF HandlerFailureCaught
        THEN RunLoop(s.kind, s.call, queue[s.kind], stack, calls[s.kind],
                     done)
        ELSE Escape(s.kind, s.call, stack, done)
  /\ UNCHANGED <<handlers, registered, probe>>
  /\ UNCHANGED appVars

\* A dispatch that does not wait for processQueue.
dispatchResumesEarly(d, c) ==
  /\ stack = <<>>
  /\ c \in 1..Len(calls[d])
  /\ calls[d][c].state \in {"awaiting", "drained", "failed"}
  /\ calls' = [calls EXCEPT ![d][c].state =
                 IF @ = "failed" THEN "rejected" ELSE "resolved"]
  /\ UNCHANGED <<handlers, queue, isProcessing, suspended, stack,
                 invoked, settled, registered, probe>>
  /\ UNCHANGED appVars

\* dispatch resumes from `await this.processQueue()` and its promise settles.
dispatchResumes(d, c) ==
  /\ stack = <<>>
  /\ c \in 1..Len(calls[d])
  /\ calls[d][c].state \in {"drained", "failed"}
  /\ calls' = [calls EXCEPT ![d][c].state =
                 IF @ = "drained" THEN "resolved" ELSE "rejected"]
  /\ UNCHANGED <<handlers, queue, isProcessing, suspended, stack,
                 invoked, settled, registered, probe>>
  /\ UNCHANGED appVars

Next ==
  \/ \E d \in Kinds : \E h \in Registrable(d) : registerHandler(d, h)
  \/ \E d \in Kinds : \E cls \in MsgClasses(d) :
        dispatch(d, NewType(cls)) /\ UNCHANGED appVars
  \/ HandlerReturns
  \/ HandlerThrows
  \/ \E s \in suspended : HandlerResolves(s)
  \/ \E s \in suspended : HandlerRejects(s)
  \/ \E d \in Kinds : \E c \in 1..Len(calls[d]) : dispatchResumes(d, c)

Spec == Init /\ [][Next]_vars

\* ---------------------------------------------------------- tag derivation
\* The words class names are made of.
TagWords == {wLogin, wUser, wCommand, wEvent, wDB, wV2}

RECURSIVE NamesOf(_)
NamesOf(k) ==
  IF k = 0 THEN {<<>>}
  ELSE {w \o n : w \in TagWords, n \in NamesOf(k - 1)}

\* class names of one to MaxWords words
ClassNames == UNION {NamesOf(k) : k \in 1..MaxWords}

\* An application with one message class N and the handler class
\* N + 'Handler', for one of the dispatchers.
InitTag ==
  /\ handlers = [d \in Kinds |-> <<>>]
  /\ queue = [d \in Kinds |-> <<>>]
  /\ isProcessing = [d \in Kinds |-> FALSE]
  /\ calls = [d \in Kinds |-> <<>>]
  /\ suspended = {}
  /\ stack = <<>>
  /\ invoked = [d \in Kinds |-> <<>>]
  /\ settled = [d \in Kinds |-> <<>>]
  /\ registered = [d \in Kinds |-> <<>>]
  /\ probe \in [name : ClassNames, kind : Kinds]
  /\ InitApp

\* dispatcher.registerHandler(new NHandler())
registerProbe ==
  /\ registered[probe.kind] = <<>>
  /\ registerHandler(probe.kind, "probe")

\* dispatcher.dispatch(new N(id))
dispatchProbe ==
  /\ registered[probe.kind] # <<>>
  /\ calls[probe.kind] = <<>>
  /\ dispatch(probe.kind, NewType(probe.name))
  /\ UNCHANGED appVars

NextTag == registerProbe \/ dispatchProbe

SpecTag == InitTag /\ [][NextTag]_vars

\* The synchronous part of a handler ends, every promise a handler returned
\* settles, and a dispatch whose processQueue promise settled resumes.
FairSpec ==
  /\ Spec
  /\ WF_vars(HandlerReturns \/ HandlerThrows)
  /\ WF_vars(\E s \in suspended : HandlerResolves(s) \/ HandlerRejects(s))
  /\ WF_vars(\E d \in Kinds : \E c \in 1..Len(calls[d]) :
                dispatchResumes(d, c))

\* --------------------------------------------------------------- middleware
\* action.payload of an action without that field
NoPayload == "undefined"

\* The payloads of the actions given to the store: none, the number 0,
\* an object.
Payloads == {NoPayload, "0", "object"}

\* !action.payload
NotPayload(p) == p \in {"undefined", "null", "0", "false", "NaN", "''"}

\* What the actions given to the store are named after: the classes
\* LoginUserCommand and UserLoggedInEvent, and the type ITEM_UPDATED of
\* updateItemInStore.
ActionNames ==
  {wLogin \o wUser \o wCommand,
   wUser \o wLogged \o wIn \o wEvent,
   wItem \o wUpdated}

\* action.type of each
ActionTypes == {TypeTag(n) : n \in ActionNames}

Actions == [type : ActionTypes, payload : Payloads]

\* the characters of each of these types
charsOf ==
  [t \in ActionTypes |->
     LET n == CHOOSE n \in ActionNames : TypeTag(n) = t
     IN replace(n)] @@ <<>>

\* ActionType(UserLoggedInEvent)
ActionType(cls) == TypeTag(cls)

\* authReducer
authReducer(state, action) ==
  IF str(toUpperCase(charsOf[action.type]))
       = ActionType(wUser \o wLogged \o wIn \o wEvent)
  THEN [state EXCEPT !.isAuthenticated = TRUE, !.userId = "Id"]
  ELSE state

\* the root reducer of the store: authReducer on the slice auth
rootReducer(state, action) ==
  [state EXCEPT !.auth = authReducer(@, action)]

NumNext ==
  Cardinality({i \in 1..Len(routed) : routed[i].via = "next"})

\* next(action): the rest of the chain, ending in the reducers
next(action) ==
  /\ NumNext < MaxNext
  /\ store' = rootReducer(store, action)
  /\ routed' = Append(routed, [action |-> action, via |-> "next"])
  /\ UNCHANGED dispVars
  /\ UNCHANGED <<probe, hydrated, instances>>

\* The branch the middleware takes for an action.
branch(action) ==
  IF endsWith(toUpperCase(charsOf[action.type]),
              <<"_">> \o toUpperCase(wCommand))
       /\ NotPayload(action.payload)
  THEN "commandDispatcher"
  ELSE IF endsWith(toUpperCase(charsOf[action.type]),
                   <<"_">> \o toUpperCase(wEvent))
            /\ NotPayload(action.payload)
  THEN "eventDispatcher"
  ELSE "next"

\* the branch taken for each of the actions given to the store, as a
\* table built once
branchOf == [action \in Actions |-> branch(action)] @@ <<>>

\* The function createCQRSReduxMiddleware returns, applied to an action
\* given to store.dispatch.
middleware(action) ==
  CASE branchOf[action] = "commandDispatcher" ->
         /\ dispatch("Command", action.type)
         /\ routed' = Append(routed, [action |-> action,
                                      via |-> "commandDispatcher"])
         /\ UNCHANGED <<store, hydrated, instances>>
    [] branchOf[action] = "eventDispatcher" ->
         /\ dispatch("Event", action.type)
         /\ routed' = Append(routed, [action |-> action,
                                      via |-> "eventDispatcher"])
         /\ UNCHANGED <<store, hydrated, instances>>
    [] OTHER -> next(action)

\* store.dispatch(action) on the store built with
\* applyMiddleware(cqrsMiddleware)
storeDispatch(action) == middleware(action)

\* The state after the store module ran: a LoginUserCommandHandler and an
\* ItemUpdatedEventHandler registered, the store created with the
\* middleware.
InitMw ==
  /\ handlers = [d \in Kinds |->
        MapSet(<<>>, KeyFor(d, IF d = "Command" THEN "loginA" ELSE "itemA"),
               IF d = "Command" THEN "loginA" ELSE "itemA")]
  /\ registered = [d \in Kinds |->
        <<IF d = "Command" THEN "loginA" ELSE "itemA">>]
  /\ queue = [d \in Kinds |-> <<>>]
  /\ isProcessing = [d \in Kinds |-> FALSE]
  /\ calls = [d \in Kinds |-> <<>>]
  /\ suspended = {}
  /\ stack = <<>>
  /\ invoked = [d \in Kinds |-> <<>>]
  /\ settled = [d \in Kinds |-> <<>>]
  /\ probe = NoProbe
  /\ InitApp

\* The application that reaches the dispatchers through the store only.
NextMw ==
  \/ \E action \in Actions : storeDispatch(action)
  \/ HandlerReturns
  \/ HandlerThrows
  \/ \E s \in suspended : HandlerResolves(s)
  \/ \E s \in suspended : HandlerRejects(s)
  \/ \E d \in Kinds : \E c \in 1..Len(calls[d]) : dispatchResumes(d, c)

SpecMw == InitMw /\ [][NextMw]_vars

\* -------------------------------------------------------------- hydration
hex8  == <<"c","5","6","a","4","1","8","0">>
hex4  == <<"6","5","A","a">>
dash  == <<"-">>

\* a string of the shape 8-4-4-4-12 whose first group is g
Shaped(g) ==
  g \o dash \o hex4 \o dash \o hex4 \o dash \o hex4 \o dash \o hex4 \o hex8

\* The strings found in persisted records: a name, two identifiers, an
\* identifier in braces, one after an opening brace alone, and a string of
\* the same shape that has letters beyond f.
sName   == <<"A">>
sUuid   == Shaped(hex8)
sOther  == Shaped(<<"0","0","0","0","0","0","0","1">>)
sBraced == <<"{">> \o sUuid \o <<"}">>
sHalf   == <<"{">> \o sUuid
sNotHex == Shaped(<<"g","h","i","j","k","l","m","n">>)

Strings == {sName, sUuid, sOther, sBraced, sHalf, sNotHex}

\* the characters of each of these strings
chars ==
  [v \in {str(c) : c \in Strings} |->
     CHOOSE c \in Strings : str(c) = v] @@ <<>>

\* The values of the fields of persisted records: these strings and a
\* number, each with its typeof.
FieldValues ==
  {[typeof |-> "string", value |-> str(c)] :
      c \in {sName, sUuid, sBraced, sHalf, sNotHex}}
    \cup {[typeof |-> "number", value |-> "20"]}

FieldKeys == {"name", "ownerId", "Id"}

\* the persisted records: objects with some of these fields
Records == UNION {[K -> FieldValues] : K \in SUBSET FieldKeys \ {{}}}

\* entityId.toString() of the identifiers entities are asked for
EntityIds == {str(sUuid), str(sOther)}

\* the record of the entity sOther
otherRecord == [name |-> [typeof |-> "string", value |-> str(sName)]]

\* The states of the store: the slice auth alone, or with the slice user
\* holding the entity sOther and perhaps the entity sUuid.
StoreStates ==
  {initialState}
    \cup {[auth |-> initialState.auth,
           user |-> [id \in {str(sOther)} |-> otherRecord]]}
    \cup {[auth |-> initialState.auth,
           user |-> [id \in EntityIds |->
                       IF id = str(sOther) THEN otherRecord ELSE rec]] :
            rec \in Records}

\* the aggregate classes
wuser == <<"U","s","e","r">>
EntityClasses == {wuser}

\* Guid.parse(string): the identifier object made from the string, named
\* here by the string it was made from
GuidParse(v) == [typeof |-> "Guid", value |-> v]

\* new entityClass(store.dispatch, entityId): the fields BaseEntity sets
newEntity(id) ==
  [k \in {"dispatch", "Id"} |->
     IF k = "dispatch"
     THEN [typeof |-> "function", value |-> "store.dispatch"]
     ELSE [typeof |-> "Guid", value |-> id]]

\* the value hydrateEntity assigns to domain[key] for a field value.
\* Guid.parse(...) !== Guid.createEmpty() compares two new objects and is
\* true.
fieldValue(v) ==
  IF v.typeof = "string" /\ match(chars[v.value]) /\ TRUE
  THEN GuidParse(v.value)
  ELSE v

\* hydrateEntity(store, entityClass, entityId) on the state of the store:
\* what it returns, or the TypeError of reading a property of undefined
hydrateEntity(state, entityClass, entityId) ==
  LET stateSlice == str(toLowerCase(entityClass))
  IN IF stateSlice \notin DOMAIN state
     THEN [outcome |-> "TypeError"]
     ELSE LET entities == state[stateSlice]
              domain == newEntity(entityId)
          IN IF entityId \in DOMAIN entities
             THEN LET entityData == entities[entityId]
                  IN [outcome |-> "returned",
                      value |->
                        [k \in DOMAIN domain \cup DOMAIN entityData |->
                           IF k \in DOMAIN entityData
                           THEN fieldValue(entityData[k])
                           ELSE domain[k]]]
             ELSE [outcome |-> "returned", value |-> domain]

\* a handler calls hydrateEntity(store, entityClass, entityId)
hydrate(entityClass, entityId) ==
  /\ ~hydrated.called
  /\ hydrated' = [called |-> TRUE, class |-> entityClass, id |-> entityId,
                  result |-> hydrateEntity(store, entityClass, entityId)]
  /\ UNCHANGED dispVars
  /\ UNCHANGED <<probe, store, routed, instances>>

\* The store in one of its states, before hydrateEntity is called.
InitHydrate ==
  /\ handlers = [d \in Kinds |-> <<>>]
  /\ queue = [d \in Kinds |-> <<>>]
  /\ isProcessing = [d \in Kinds |-> FALSE]
  /\ calls = [d \in Kinds |-> <<>>]
  /\ suspended = {}
  /\ stack = <<>>
  /\ invoked = [d \in Kinds |-> <<>>]
  /\ settled = [d \in Kinds |-> <<>>]
  /\ registered = [d \in Kinds |-> <<>>]
  /\ probe = NoProbe
  /\ store \in StoreStates
  /\ routed = <<>>
  /\ hydrated = NotHydrated
  /\ instances = <<>>

NextHydrate ==
  \E entityClass \in EntityClasses : \E entityId \in EntityIds :
     hydrate(entityClass, entityId)

SpecHydrate == InitHydrate /\ [][NextHydrate]_vars

\* ----------------------------------------------------------- construction
\* The words the names of the message classes constructed are made of.
InstanceWords == {wUser, wId, wID, wEvent}

RECURSIVE NamesFrom(_, _)
NamesFrom(words, k) ==
  IF k = 0 THEN {<<>>}
  ELSE {w \o n : w \in words, n \in NamesFrom(words, k - 1)}

\* message classes with names of one to MaxWords words
InstanceClasses == UNION {NamesFrom(InstanceWords, k) : k \in 1..MaxWords}

\* new N(id) for a class N that extends Command or Event: the object
\* with the class it was made from
construct(cls) ==
  /\ Len(instances) < MaxInstances
  /\ instances' = Append(instances, [class |-> cls, type |-> TypeTag(cls)])
  /\ UNCHANGED dispVars
  /\ UNCHANGED <<probe, store, routed, hydrated>>

NextNew == \E cls \in InstanceClasses : construct(cls)

SpecNew == Init /\ [][NextNew]_vars

\* ------------------------------------------------------ late registration
\* An application with a LogoutCommandHandler class besides: the handler
\* object "probe".
InitLookup ==
  /\ handlers = [d \in Kinds |-> <<>>]
  /\ queue = [d \in Kinds |-> <<>>]
  /\ isProcessing = [d \in Kinds |-> FALSE]
  /\ calls = [d \in Kinds |-> <<>>]
  /\ suspended = {}
  /\ stack = <<>>
  /\ invoked = [d \in Kinds |-> <<>>]
  /\ settled = [d \in Kinds |-> <<>>]
  /\ registered = [d \in Kinds |-> <<>>]
  /\ probe = [name |-> wLogout \o wCommand, kind |-> "Command"]
  /\ InitApp

\* dispatcher.registerHandler(handler) before anything was dispatched
registerBefore(d, h) ==
  /\ registered[d] = <<>>
  /\ calls[d] = <<>>
  /\ registerHandler(d, h)

\* dispatcher.dispatch(message), no later than the first registration made
\* while a message waits
dispatchFirst(d, type) ==
  /\ Len(registered[d]) <= 1
  /\ dispatch(d, type)
  /\ UNCHANGED appVars

\* dispatcher.registerHandler(handler) while a message waits in the queue
\* behind a handler in flight
registerWhileWaiting(d, h) ==
  /\ queue[d] # <<>>
  /\ registerHandler(d, h)

\* The application that registers one handler, dispatches, and registers
\* more handlers while messages wait.
NextLookup ==
  \/ \E d \in Kinds : \E h \in Registrable(d) : registerBefore(d, h)
  \/ \E d \in Kinds : \E cls \in MsgClasses(d) :
        dispatchFirst(d, NewType(cls))
  \/ \E d \in Kinds :
        \E h \in Registrable(d)
                 \cup (IF d = probe.kind THEN {"probe"} ELSE {}) :
           registerWhileWaiting(d, h)
  \/ HandlerReturns
  \/ HandlerThrows
  \/ \E s \in suspended : HandlerResolves(s)
  \/ \E s \in suspended : HandlerRejects(s)
  \/ \E d \in Kinds : \E c \in 1..Len(calls[d]) : dispatchResumes(d, c)

SpecLookup == InitLookup /\ [][NextLookup]_vars

\* The synchronous part of a handler ends and every promise an event
\* handler returned settles; a promise a command handler returned may stay
\* pending for ever.
FairEventSpec ==
  /\ Spec
  /\ WF_vars(HandlerReturns \/ HandlerThrows)
  /\ WF_vars(\E s \in suspended :
                s.kind = "Event" /\ (HandlerResolves(s) \/ HandlerRejects(s)))

\* -------------------------------------------------------------- histories
\* the processQueue activations of dispatcher d, among suspended ones susp
\* and running handlers stk
DrainsIn(susp, stk, d) ==
  Cardinality({s \in susp : s.kind = d})
    + Cardinality({i \in 1..Len(stk) : stk[i].kind = d})

ActiveDrains(d) == DrainsIn(suspended, stack, d)

\* the handler invocations of d that have started and not settled
Unsettled(d) ==
  Len(invoked[d])
    - Cardinality({i \in 1..Len(settled[d]) :
                     settled[d][i].result # "unhandled"})

\* message number n is in queue q
Has(q, n) == \E i \in 1..Len(q) : q[i].n = n
\* the entries of log about message number n
Times(log, n) == Cardinality({i \in 1..Len(log) : log[i].msg.n = n})

InQueue(d, n) == Has(queue[d], n)
TimesInQueue(d, n) ==
  Cardinality({i \in 1..Len(queue[d]) : queue[d][i].n = n})
TimesInvoked(d, n) == Times(invoked[d], n)
TimesSettled(d, n) == Times(settled[d], n)
Result(d, n, r) ==
  \E i \in 1..Len(settled[d]) :
     settled[d][i].msg.n = n /\ settled[d][i].result = r

\* message number n of d is in its handler
InFlight(d, n) ==
  \/ \E s \in suspended : s.kind = d /\ s.msg.n = n
  \/ \E i \in 1..Len(stack) : stack[i].kind = d /\ stack[i].msg.n = n

\* the drain started by dispatch call c of d is running
Draining(d, c) ==
  \/ \E s \in suspended : s.kind = d /\ s.call = c
  \/ \E i \in 1..Len(stack) : stack[i].kind = d /\ stack[i].call = c

\* ------------------------------------------------------------------ claims

\* C1 (FIFO): on each dispatcher the handlers are invoked in the order in
\* which their messages were passed to dispatch, messages are done with in
\* that order too, and the queue holds them in that order, also for
\* messages dispatched during a drain.
C1_Fifo ==
  \A d \in Kinds :
    /\ \A i, j \in 1..Len(invoked[d]) :
          i < j => invoked[d][i].msg.n < invoked[d][j].msg.n
    /\ \A i, j \in 1..Len(settled[d]) :
          i < j => settled[d][i].msg.n < settled[d][j].msg.n
    /\ \A i, j \in 1..Len(queue[d]) :
          i < j => queue[d][i].n < queue[d][j].n

\* The drain started by the first dispatch call is still running and is at
\* the handler of the third message: the second and third were dispatched
\* during the drain, and all three were passed to their handlers.
C1_Witness ==
  \E d \in Kinds :
    /\ Len(invoked[d]) = 3
    /\ Draining(d, 1)
    /\ InFlight(d, 3)

\* C2 (single drain): a dispatcher has at most one processQueue activation
\* and at most one handler invocation that has not settled; and a dispatch
\* call made while a drain is active appends its message to the queue,
\* starts no drain and invokes no handler.
C2_SingleDrain ==
  /\ [](\A d \in Kinds : ActiveDrains(d) <= 1 /\ Unsettled(d) <= 1)
  /\ [][\A d \in Kinds :
          (ActiveDrains(d) >= 1 /\ Len(calls'[d]) = Len(calls[d]) + 1)
          => /\ queue'[d] = Append(queue[d], calls'[d][Len(calls'[d])].msg)
             /\ {s \in suspended' : s.kind = d}
                  = {s \in suspended : s.kind = d}
             /\ stack' = stack
             /\ invoked'[d] = invoked[d]
             /\ isProcessing'[d] = isProcessing[d]
     ]_vars

\* A dispatch call was made while a handler was in flight; its message waits
\* in the queue behind the one drain.
C2_Witness ==
  \E d \in Kinds :
    /\ ActiveDrains(d) = 1
    /\ Draining(d, 1)
    /\ InQueue(d, 2)

\* C3 (fault isolation): a message whose handler failed is not in the queue
\* again and was invoked once; the messages before it stay done with, and
\* the messages behind it are either done with, in their handler, or still
\* queued with the drain active to take them.
C3_FaultIsolation ==
  \A d \in Kinds : \A f \in 1..Len(calls[d]) :
    Result(d, f, "failed") =>
      /\ ~InQueue(d, f)
      /\ TimesInvoked(d, f) = 1
      /\ TimesSettled(d, f) = 1
      /\ \A n \in 1..(f - 1) : TimesSettled(d, n) = 1
      /\ \A n \in (f + 1)..Len(calls[d]) :
            \/ TimesSettled(d, n) = 1
            \/ InFlight(d, n) /\ TimesInvoked(d, n) = 1
            \/ InQueue(d, n) /\ ActiveDrains(d) = 1

\* In the drain started by the first call the handler of the first message
\* succeeded, the handler of the second failed, and the third message,
\* queued behind it, is now in its handler.
C3_Witness ==
  \E d \in Kinds :
    /\ Draining(d, 1)
    /\ Result(d, 1, "ok")
    /\ Result(d, 2, "failed")
    /\ InFlight(d, 3)

\* C4 (completion signal): as claimed, the promise of every dispatch call,
\* made during a drain or not, is resolved only when its message and all
\* messages dispatched before it are done with.
C4_CompletionSignal ==
  \A d \in Kinds : \A c \in 1..Len(calls[d]) :
    calls[d][c].state = "resolved" =>
      \A n \in 1..c : TimesSettled(d, n) = 1

\* C5 (unregistered tag): a step that takes from the queue a message whose
\* type has no entry in the registry invokes no handler for it, does not
\* leave it in the queue, and leaves the drain active if messages remain;
\* and only such messages are reported as unhandled.
C5_UnregisteredDropped ==
  [][\A d \in Kinds :
       /\ \A i \in (Len(settled[d]) + 1)..Len(settled'[d]) :
             settled'[d][i].result = "unhandled" =>
               /\ ~MapHas(handlers[d], settled'[d][i].msg.type)
               /\ Times(invoked'[d], settled'[d][i].msg.n) = 0
               /\ ~Has(queue'[d], settled'[d][i].msg.n)
               /\ queue'[d] # <<>> => DrainsIn(suspended', stack', d) = 1
       /\ \A n \in 1..Len(calls'[d]) :
             (/\ ~Has(queue'[d], n)
              /\ TimesSettled(d, n) = 0
              /\ TimesInvoked(d, n) = 0
              /\ ~MapHas(handlers[d], calls'[d][n].msg.type))
             => /\ \E i \in 1..Len(settled'[d]) :
                      /\ settled'[d][i].msg.n = n
                      /\ settled'[d][i].result = "unhandled"
                /\ Times(invoked'[d], n) = 0
    ]_vars

\* During the drain started by the first call, the second message had no
\* handler and was dropped, and the third, queued behind it, is now in its
\* handler.
C5_Witness ==
  \E d \in Kinds :
    /\ Draining(d, 1)
    /\ Result(d, 2, "unhandled")
    /\ TimesInvoked(d, 2) = 0
    /\ InFlight(d, 3)

\* message number n of d is in exactly one place, and was given to a
\* handler once if it is in a handler or was handled, and never otherwise
ExactlyOnce(d, n) ==
  /\ TimesInQueue(d, n) + (IF InFlight(d, n) THEN 1 ELSE 0)
       + TimesSettled(d, n) = 1
  /\ TimesInvoked(d, n) =
       IF InFlight(d, n) \/ Result(d, n, "ok") \/ Result(d, n, "failed")
       THEN 1 ELSE 0

\* every dispatcher is idle, its queue empty, and every message dispatched
\* so far is done with
Quiescent ==
  \A d \in Kinds :
    /\ queue[d] = <<>> /\ ~isProcessing[d]
    /\ \A n \in 1..Len(calls[d]) : TimesSettled(d, n) = 1

\* C6 (no loss, no duplication): when handlers settle, every dispatched
\* message is at all times in exactly one of the queue, its handler, or the
\* messages done with; and again and again every message dispatched so far
\* is done with, the queues are empty and the dispatchers idle.
C6_NoLossNoDuplication ==
  /\ [](\A d \in Kinds : \A n \in 1..Len(calls[d]) : ExactlyOnce(d, n))
  /\ []<>Quiescent

\* Every dispatch call the bound allows was made, on one dispatcher at
\* least two messages were passed to handlers, all messages are done with
\* and the dispatchers idle, with a drain-starting call not yet resumed.
C6_Witness ==
  /\ NumCalls = MaxDispatch
  /\ Quiescent
  /\ \E d \in Kinds :
        /\ Len(invoked[d]) >= 2
        /\ calls[d][1].state = "drained"

\* C7 (failure containment): no promise returned by dispatch is rejected,
\* and no processQueue promise either.
C7_NeverRejects ==
  \A d \in Kinds : \A c \in 1..Len(calls[d]) :
    calls[d][c].state \notin {"failed", "rejected"}

\* The promise of a first, drain-starting call is resolved although the
\* handler of its message failed, and one is resolved whose message had no
\* handler.
C7_Witness ==
  /\ \E d \in Kinds :
        calls[d] # <<>> /\ calls[d][1].state = "resolved"
          /\ Result(d, 1, "failed")
  /\ \E d \in Kinds :
        calls[d] # <<>> /\ calls[d][1].state = "resolved"
          /\ Result(d, 1, "unhandled")

\* the handler registered last under key k among the first r registrations
LastRegistered(d, k, r) ==
  LET I == {i \in 1..r : KeyFor(d, registered[d][i]) = k}
  IN IF I = {} THEN NoHandler
     ELSE registered[d][CHOOSE i \in I : \A j \in I : j <= i]

\* C8 (last registration wins): the registry has one entry per key, holding
\* the handler registered last under that key, every registration is in
\* it, and a step that invokes a handler invokes the one registered last
\* for the message's type.
C8_LastRegistrationWins ==
  /\ [](\A d \in Kinds :
          /\ \A i, j \in 1..Len(handlers[d]) :
                i # j => handlers[d][i].key # handlers[d][j].key
          /\ \A i \in 1..Len(handlers[d]) :
                handlers[d][i].value =
                  LastRegistered(d, handlers[d][i].key, Len(registered[d]))
          /\ \A i \in 1..Len(registered[d]) :
                MapHas(handlers[d], KeyFor(d, registered[d][i])))
  /\ [][\A d \in Kinds :
          \A i \in (Len(invoked[d]) + 1)..Len(invoked'[d]) :
             invoked'[d][i].handler =
               LastRegistered(d, invoked'[d][i].msg.type, Len(registered[d]))
     ]_vars

\* Two different handlers were registered under one key, and a message was
\* then passed to the second.
C8_Witness ==
  \E d \in Kinds :
    /\ Len(registered[d]) = 2
    /\ registered[d][1] # registered[d][2]
    /\ KeyFor(d, registered[d][1]) = KeyFor(d, registered[d][2])
    /\ \E i \in 1..Len(invoked[d]) :
          invoked[d][i].handler = registered[d][2]

\* name has the characters of part somewhere in it
includes(name, part) ==
  \E i \in 1..(Len(name) - Len(part) + 1) :
     SubSeq(name, i, i + Len(part) - 1) = part

\* C9 (handler key equals message tag): as claimed, for every class name N
\* ending in 'Command' (resp. 'Event') the key the CommandDispatcher (resp.
\* EventDispatcher) stores the handler of class N + 'Handler' under is the
\* type stamped on an instance of N, and a dispatched N is passed to that
\* handler.
C9_HandlerKeyEqualsTag ==
  (/\ endsWith(probe.name, Segment(probe.kind))
   /\ probe.name # <<>>
   /\ calls[probe.kind] # <<>>)
    => /\ handlers[probe.kind][1].key = calls[probe.kind][1].msg.type
       /\ Len(invoked[probe.kind]) = 1
       /\ invoked[probe.kind][1].handler = "probe"

\* C10 (missing suffix rejected): as claimed, the registry never holds an
\* entry for a handler whose class name has no 'Command' (resp. 'Event')
\* in it.
C10_MissingSuffixRejected ==
  \A d \in Kinds : \A i \in 1..Len(handlers[d]) :
    includes(constructorName(handlers[d][i].value), Segment(d))

\* the type ends in '_COMMAND' / in '_EVENT'
IsCommandType(t) ==
  endsWith(toUpperCase(charsOf[t]), <<"_">> \o toUpperCase(wCommand))
IsEventType(t) ==
  endsWith(toUpperCase(charsOf[t]), <<"_">> \o toUpperCase(wEvent))

\* the actions the middleware sent to v, in order
SentTo(v) == SelectSeq(routed, LAMBDA r : r.via = v)

\* C11 (middleware routing): as claimed, an action whose type ends in
\* '_COMMAND' and that has no payload goes to commandDispatcher.dispatch
\* and not to next; otherwise one whose type ends in '_EVENT' and that has
\* no payload goes to eventDispatcher.dispatch and not to next; every other
\* action, so every action that has a payload, goes to next and to neither
\* dispatcher.
C11_MiddlewareRouting ==
  /\ \A i \in 1..Len(routed) :
        LET a == routed[i].action
        IN routed[i].via =
             IF IsCommandType(a.type) /\ a.payload = NoPayload
             THEN "commandDispatcher"
             ELSE IF IsEventType(a.type) /\ a.payload = NoPayload
             THEN "eventDispatcher"
             ELSE "next"
  /\ Len(SentTo("commandDispatcher")) = Len(calls["Command"])
  /\ Len(SentTo("eventDispatcher")) = Len(calls["Event"])

\* C12 (events reach the reducers): as claimed, every event given to
\* store.dispatch (type ending in '_EVENT', no payload field) is passed on
\* to the reducer chain, and after a UserLoggedInEvent the store says the
\* user is authenticated.
C12_EventsReachReducers ==
  \A i \in 1..Len(routed) :
    LET a == routed[i].action
    IN (IsEventType(a.type) /\ a.payload = NoPayload)
         => /\ routed[i].via = "next"
            /\ a.type = ActionType(wUser \o wLogged \o wIn \o wEvent)
                 => store.auth.isAuthenticated

\* the other dispatcher
Other(d) == IF d = "Command" THEN "Event" ELSE "Command"

\* the step makes a dispatch call on d
Calls(d) == Len(calls'[d]) = Len(calls[d]) + 1

\* C13 (dispatcher independence): every step reads and writes the queue,
\* registry and flag of one dispatcher only; a message dispatched to an
\* idle dispatcher that has a handler for it is passed to the handler in
\* the dispatch call itself, whatever the other dispatcher is doing; and
\* when the promises of command handlers never settle, every event is
\* still done with and the EventDispatcher idle again and again.
C13_Independence ==
  /\ [][\E d \in Kinds :
          /\ queue'[Other(d)] = queue[Other(d)]
          /\ handlers'[Other(d)] = handlers[Other(d)]
          /\ isProcessing'[Other(d)] = isProcessing[Other(d)]
          /\ invoked'[Other(d)] = invoked[Other(d)]
          /\ settled'[Other(d)] = settled[Other(d)]
          /\ calls'[Other(d)] = calls[Other(d)]
     ]_vars
  /\ [][\A d \in Kinds :
          (/\ Calls(d)
           /\ ~isProcessing[d]
           /\ MapHas(handlers[d], calls'[d][Len(calls'[d])].msg.type))
          => /\ Len(invoked'[d]) = Len(invoked[d]) + 1
             /\ invoked'[d][Len(invoked'[d])].msg
                  = calls'[d][Len(calls'[d])].msg
             /\ stack' # <<>>
             /\ stack'[Len(stack')].kind = d
             /\ stack'[Len(stack')].msg.n = Len(calls'[d])
     ]_vars
  /\ []<>(/\ queue["Event"] = <<>>
          /\ ~isProcessing["Event"]
          /\ \A n \in 1..Len(calls["Event"]) : TimesSettled("Event", n) = 1)

\* A command handler dispatched an event from its synchronous part, and
\* the handler of the event runs while the command handler has not even
\* returned: both are in flight.
C13_Witness ==
  /\ Len(stack) = 2
  /\ stack[1].kind = "Command"
  /\ stack[2].kind = "Event"
  /\ InFlight("Command", stack[1].msg.n)
  /\ InFlight("Event", stack[2].msg.n)

\* the drain of dispatcher d among suspended ones susp and running handlers
\* stk: the dispatch call that started it and the message in its handler
DrainOf(susp, stk, d) ==
  LET S == {[call |-> s.call, n |-> s.msg.n] : s \in {t \in susp : t.kind = d}}
           \cup {[call |-> stk[i].call, n |-> stk[i].msg.n] :
                   i \in {k \in 1..Len(stk) : stk[k].kind = d}}
  IN CHOOSE e \in S : TRUE

\* C17 (re-entrant dispatch): a dispatch call made on dispatcher d by a
\* handler of d that is running only appends the message to the queue and
\* returns a resolved promise, and leaves the handler and the drain as they
\* are; a message the drain then takes from the queue is passed to its
\* handler by that same drain, after the message before it is done with;
\* and again and again no handler is running and the queues are empty.
C17_ReentrantDispatch ==
  /\ [][\A d \in Kinds :
          (stack # <<>> /\ Top.kind = d /\ Calls(d))
          => LET c == Len(calls'[d])
             IN /\ queue'[d] = Append(queue[d], calls'[d][c].msg)
                /\ calls'[d][c].state = "resolved"
                /\ stack' = stack
                /\ suspended' = suspended
                /\ invoked'[d] = invoked[d]
                /\ settled'[d] = settled[d]
     ]_vars
  /\ [][\A d \in Kinds :
          (/\ DrainsIn(suspended, stack, d) = 1
           /\ Len(invoked'[d]) = Len(invoked[d]) + 1)
          => LET old == DrainOf(suspended, stack, d)
                 new == DrainOf(suspended', stack', d)
             IN /\ DrainsIn(suspended', stack', d) = 1
                /\ new.call = old.call
                /\ new.n = invoked'[d][Len(invoked'[d])].msg.n
                /\ new.n > old.n
                /\ \A n \in 1..(new.n - 1) : Times(settled'[d], n) = 1
     ]_vars
  /\ []<>(stack = <<>> /\ \A d \in Kinds : queue[d] = <<>>)

\* The handler of the first message is running and has dispatched a second
\* message to its own dispatcher: the message is queued and the promise of
\* that call resolved, while the handler has not returned.
C17_Witness ==
  \E d \in Kinds :
    /\ stack # <<>>
    /\ Top.kind = d
    /\ Top.msg.n = 1
    /\ InQueue(d, 2)
    /\ calls[d][2].state = "resolved"

C20_Quiescence ==
  \A d \in Kinds :
    /\ ~isProcessing[d] => queue[d] = <<>>
    /\ queue[d] # <<>> => ActiveDrains(d) >= 1

\* Two messages wait in the queue of a dispatcher whose flag is set and
\* whose drain is at a handler.
C20_Witness ==
  \E d \in Kinds :
    /\ Len(queue[d]) = 2
    /\ isProcessing[d]
    /\ ActiveDrains(d) = 1

\* C19 (handler lookup at dequeue time): a step that takes a message from
\* the queue passes it to the handler registered last for its type among
\* all registrations made up to that step, those made after the message
\* was dispatched included, and drops it as unhandled only if none was; a
\* registerHandler call itself takes nothing from the queue.
C19_LookupAtDequeue ==
  [][\A d \in Kinds :
       /\ \A i \in (Len(invoked[d]) + 1)..Len(invoked'[d]) :
             /\ invoked'[d][i].handler # NoHandler
             /\ invoked'[d][i].handler =
                  LastRegistered(d, invoked'[d][i].msg.type,
                                 Len(registered[d]))
       /\ \A i \in (Len(settled[d]) + 1)..Len(settled'[d]) :
             settled'[d][i].result = "unhandled" =>
               LastRegistered(d, settled'[d][i].msg.type,
                              Len(registered[d])) = NoHandler
       /\ Len(registered'[d]) > Len(registered[d]) =>
             /\ queue'[d] = queue[d]
             /\ invoked'[d] = invoked[d]
             /\ settled'[d] = settled[d]
    ]_vars

\* A LogoutCommand waited in the queue behind a handler in flight when the
\* LogoutCommandHandler was registered, after every dispatch call, and the
\* drain passed the command to it.
C19_Witness ==
  /\ Len(registered["Command"]) = 2
  /\ registered["Command"][2] = "probe"
  /\ \E i \in 1..Len(invoked["Command"]) :
        /\ invoked["Command"][i].handler = "probe"
        /\ invoked["Command"][i].msg.type = NewType(wLogout \o wCommand)

\* C16 (tag derivation deterministic and injective): as claimed, two
\* message objects of the same class carry the same type, and two message
\* objects of classes with distinct names carry distinct types.
C16_TagInjective ==
  \A i, j \in 1..Len(instances) :
    /\ instances[i].class = instances[j].class
         => instances[i].type = instances[j].type
    /\ instances[i].class # instances[j].class
         => instances[i].type # instances[j].type

\* the record the store holds for the entity hydrateEntity was called
\* for, if it holds one
Slice == str(toLowerCase(hydrated.class))
HasRecord ==
  /\ Slice \in DOMAIN store
  /\ hydrated.id \in DOMAIN store[Slice]
Record == store[Slice][hydrated.id]

\* a string of the canonical UUID shape, 8-4-4-4-12 hexadecimal digits
CanonicalUuid(v) == v.typeof = "string" /\ HexGroups(chars[v.value])

\* C14 (hydration of a missing entity never fails): as claimed, when the
\* state holds no record of the entity, because the slice has none or
\* because the state has no such slice, hydrateEntity returns an aggregate
\* with the fields the constructor set and no others, the identifier being
\* the one asked for.
C14_MissingEntityNeverFails ==
  (hydrated.called /\ ~HasRecord)
    => /\ hydrated.result.outcome = "returned"
       /\ DOMAIN hydrated.result.value = {"dispatch", "Id"}
       /\ hydrated.result.value["Id"]
            = [typeof |-> "Guid", value |-> hydrated.id]

\* C15 (hydration field copy): as claimed, when a record is found the
\* aggregate gets exactly the record's keys besides those the constructor
\* set, a field whose value is a string of canonical UUID shape holding
\* the identifier parsed from it, and every other field holding the
\* record's value unchanged.
C15_FieldCopy ==
  (hydrated.called /\ HasRecord)
    => /\ hydrated.result.outcome = "returned"
       /\ DOMAIN hydrated.result.value
            = {"dispatch", "Id"} \cup DOMAIN Record
       /\ \A k \in DOMAIN Record :
             hydrated.result.value[k] =
               IF CanonicalUuid(Record[k])
               THEN GuidParse(Record[k].value)
               ELSE Record[k]

\* C21 (hydration preserves identity): as claimed, whatever the state of
\* the store and the persisted record, the aggregate hydrateEntity returns
\* has the Id it was asked for and the store's dispatch: copying the
\* record's fields changes neither of the two values the constructor set.
C21_IdentityPreserved ==
  (hydrated.called /\ hydrated.result.outcome = "returned")
    => /\ hydrated.result.value["Id"] = newEntity(hydrated.id)["Id"]
       /\ hydrated.result.value["dispatch"]
            = newEntity(hydrated.id)["dispatch"]

====
